---- MODULE Spec2Model ----
(***************************************************************************)
(* Model of the WhatsApp batch senders of src/src: invoice_message.py,     *)
(* welcome_new_user.py and msg_existing_user.py.                           *)
(*                                                                         *)
(* Strings are sequences of one-character strings, so that strip, lower    *)
(* and split are computed character by character.  Python's None and       *)
(* pandas' NaN are one-element sequences whose element is not a single     *)
(* character, which keeps them distinct from every string.                 *)
(***************************************************************************)
EXTENDS Naturals, Sequences, FiniteSets

VARIABLES variant, excel_file, invoice_files, pc, abort_reason, df,
          mapping, missing, phone_numbers, dealer_names, dealer_codes,
          idx, results, calls, reads, dfile, dres

vars == <<variant, excel_file, invoice_files, pc, abort_reason, df,
          mapping, missing, phone_numbers, dealer_names, dealer_codes,
          idx, results, calls, reads, dfile, dres>>

-----------------------------------------------------------------------------
(* Bounds *)

MaxRows == 2

MaxFiles == 2

MaxNameLen == 3

-----------------------------------------------------------------------------
(* Python values and string helpers *)

None == <<"None">>

NaN == <<"NaN">>

Unset == <<"Unset">>

HTTP_OK == 200

Whitespace == {" ", "\t", "\n"}

UpperLetters == <<"A","B","C","D","E","F","G","H","I","J","K","L","M",
                  "N","O","P","Q","R","S","T","U","V","W","X","Y","Z">>

LowerLetters == <<"a","b","c","d","e","f","g","h","i","j","k","l","m",
                  "n","o","p","q","r","s","t","u","v","w","x","y","z">>

LowerMap ==
    [c \in {UpperLetters[k] : k \in 1..26} |->
        LowerLetters[CHOOSE k \in 1..26 : UpperLetters[k] = c]]

LowerChar(c) == IF c \in DOMAIN LowerMap THEN LowerMap[c] ELSE c

lower(s) == [k \in 1..Len(s) |-> LowerChar(s[k])]

RECURSIVE lstrip(_)
lstrip(s) ==
    IF s = <<>> THEN <<>>
    ELSE IF Head(s) \in Whitespace THEN lstrip(Tail(s)) ELSE s

RECURSIVE rstrip(_)
rstrip(s) ==
    IF s = <<>> THEN <<>>
    ELSE IF s[Len(s)] \in Whitespace THEN rstrip(SubSeq(s, 1, Len(s) - 1)) ELSE s

strip(s) == rstrip(lstrip(s))

\* filename.split("_")[0]
RECURSIVE split_first(_, _)
split_first(s, d) ==
    IF s = <<>> THEN <<>>
    ELSE IF Head(s) = d THEN <<>>
    ELSE <<Head(s)>> \o split_first(Tail(s), d)

\* Series.astype(str) on one cell: a missing cell becomes the text "nan"
astype_str(cell) == IF cell = NaN THEN <<"n","a","n">> ELSE cell

SeqsUpTo(S, n) == UNION {[1..k -> S] : k \in 0..n}

Range(s) == {s[k] : k \in 1..Len(s)}

-----------------------------------------------------------------------------
(* invoice_message.py: extract_invoice_number *)

\* return filename.split("_")[0].strip(), without the two None cases
extract_invoice_number_no_none(filename) == strip(split_first(filename, "_"))

extract_invoice_number(filename) ==
    IF filename = <<>> THEN None
    ELSE LET token == split_first(filename, "_")
         IN  IF strip(token) = <<>> THEN None ELSE strip(token)

-----------------------------------------------------------------------------
(* Column names *)

col_invoice == <<"i","n","v","o","i","c","e"," ","n","u","m","b","e","r">>

col_phone == <<"p","h","o","n","e"," ","n","u","m","b","e","r">>

col_dealer == <<"d","e","a","l","e","r"," ","n","a","m","e">>

col_amount == <<"a","m","o","u","n","t">>

col_code == <<"d","e","a","l","e","r"," ","c","o","d","e">>

REQUIRED_COLUMNS_invoice == {col_invoice, col_phone, col_dealer, col_amount}

REQUIRED_COLUMNS_new == {col_phone}

REQUIRED_COLUMNS_existing == {col_phone, col_dealer, col_code}

-----------------------------------------------------------------------------
(* load_excel: identical in the three files *)

EmptyFrame == [columns |-> <<>>, rows |-> <<>>]

load_excel(file) ==
    IF ~file.readable
    THEN [ok |-> FALSE, df |-> EmptyFrame]
    ELSE [ok |-> TRUE,
          df |-> [columns |-> [k \in 1..Len(file.headers) |->
                                   lower(strip(file.headers[k]))],
                  rows    |-> file.rows]]

-----------------------------------------------------------------------------
(* DataFrame helpers *)

ColIndex(frame, col) == CHOOSE k \in 1..Len(frame.columns) : frame.columns[k] = col

Cell(frame, r, col) == frame.rows[r][ColIndex(frame, col)]

\* df[col] = df[col].astype(str).str.strip() for every col of req
TrimColumns(frame, req) ==
    [frame EXCEPT !.rows =
        [r \in 1..Len(frame.rows) |->
            [c \in 1..Len(frame.columns) |->
                IF frame.columns[c] \in req
                THEN strip(astype_str(frame.rows[r][c]))
                ELSE frame.rows[r][c]]]]

\* a validator that never finds an empty cell
HasEmpty_never(frame, req) == FALSE

HasEmpty(frame, req) ==
    \E r \in 1..Len(frame.rows) : \E col \in req : Cell(frame, r, col) = <<>>

Column(frame, col) == [r \in 1..Len(frame.rows) |-> Cell(frame, r, col)]

-----------------------------------------------------------------------------
(* invoice_message.py: validate_data *)

EmptyDict == [k \in {} |-> None]

\* a mapping that keeps the first row of each invoice number
RECURSIVE dict_from_rows_first(_, _, _)
dict_from_rows_first(frame, r, m) ==
    IF r > Len(frame.rows) THEN m
    ELSE LET key == Cell(frame, r, col_invoice)
             val == [phone  |-> Cell(frame, r, col_phone),
                     dealer |-> Cell(frame, r, col_dealer),
                     amount |-> Cell(frame, r, col_amount)]
         IN  dict_from_rows_first(frame, r + 1,
                 [k \in (DOMAIN m) \cup {key} |-> IF k \in DOMAIN m THEN m[k] ELSE val])

\* the dict comprehension of lines 166-173: rows are inserted in table order
RECURSIVE dict_from_rows(_, _, _)
dict_from_rows(frame, r, m) ==
    IF r > Len(frame.rows) THEN m
    ELSE LET key == Cell(frame, r, col_invoice)
             val == [phone  |-> Cell(frame, r, col_phone),
                     dealer |-> Cell(frame, r, col_dealer),
                     amount |-> Cell(frame, r, col_amount)]
         IN  dict_from_rows(frame, r + 1,
                 [k \in (DOMAIN m) \cup {key} |-> IF k = key THEN val ELSE m[k]])

\* missing = file_invoices - excel_invoices
missing_invoices_reversed(excel_invoices, file_invoices) == file_invoices \ excel_invoices

\* missing = excel_invoices - file_invoices
missing_invoices(excel_invoices, file_invoices) == excel_invoices \ file_invoices

file_invoices_of(filenames) ==
    {extract_invoice_number(filenames[k]) : k \in 1..Len(filenames)} \ {None}

validate_data_invoice(frame, filenames) ==
    IF ~(REQUIRED_COLUMNS_invoice \subseteq Range(frame.columns))
    THEN [ok |-> FALSE, reason |-> "columns", df |-> frame,
          missing |-> {}, mapping |-> EmptyDict]
    ELSE LET trimmed == TrimColumns(frame, REQUIRED_COLUMNS_invoice)
         IN  IF HasEmpty(trimmed, REQUIRED_COLUMNS_invoice)
             THEN [ok |-> FALSE, reason |-> "empty", df |-> trimmed,
                   missing |-> {}, mapping |-> EmptyDict]
             ELSE LET excel_invoices == Range(Column(trimmed, col_invoice))
                      file_invoices  == file_invoices_of(filenames)
                      miss           == missing_invoices(excel_invoices, file_invoices)
                  IN  IF miss # {}
                      THEN [ok |-> FALSE, reason |-> "unmatched", df |-> trimmed,
                            missing |-> miss, mapping |-> EmptyDict]
                      ELSE [ok |-> TRUE, reason |-> "", df |-> trimmed,
                            missing |-> {},
                            mapping |-> dict_from_rows(trimmed, 1, EmptyDict)]

-----------------------------------------------------------------------------
(* The provider: what requests.post can answer *)

\* POST .../media: a network error, a non-200 status, a 200 whose body is
\* not JSON, a 200 JSON body without "id", a 200 JSON body with "id"
UploadResponses ==
    { [exc |-> "conn", status_code |-> 0,   json |-> "none"],
      [exc |-> "",     status_code |-> 500, json |-> "noid"],
      [exc |-> "",     status_code |-> 200, json |-> "bad"],
      [exc |-> "",     status_code |-> 200, json |-> "noid"],
      [exc |-> "",     status_code |-> 200, json |-> "id"] }

\* POST .../messages
SendResponses ==
    { [exc |-> "conn", status_code |-> 0,   json |-> "none"],
      [exc |-> "",     status_code |-> 200, json |-> "id"],
      [exc |-> "",     status_code |-> 201, json |-> "id"],
      [exc |-> "",     status_code |-> 500, json |-> "noid"] }

\* file_obj.read(): "" is a successful read, otherwise the exception raised
ReadOutcomes == {"", "io"}

CountryPrefix == <<"9","1">>

\* exceptions that are instances of Exception, which "except Exception" catches
ExceptionInstances == {"io", "conn", "json"}

catches_narrow(e) == e \in {"io"}

catches(e) == e \in ExceptionInstances

ErrorStatus(e) ==
    CASE e = "io"   -> "error: io"
      [] e = "conn" -> "error: conn"
      [] e = "json" -> "error: json"
      [] OTHER      -> "error: unknown"

ErrorStatuses == {ErrorStatus(e) : e \in ExceptionInstances}

\* status = "sent" if ok else "failed" / except Exception as e: status = f"error: {e}"
status_of(out) ==
    IF out.ret = "raise" THEN ErrorStatus(out.exc)
    ELSE IF out.ret = "True" THEN "sent" ELSE "failed"

-----------------------------------------------------------------------------
(* invoice_message.py: send_whatsapp_msg *)

\* send_whatsapp_msg without the two checks of the upload response
send_whatsapp_msg_invoice_unchecked(item, phone, upload_resp, resp) ==
    LET upload  == [item |-> item, endpoint |-> "media", to |-> <<>>,
                    resp |-> upload_resp]
        message == [item |-> item, endpoint |-> "messages",
                    to |-> CountryPrefix \o phone, resp |-> resp]
    IN  IF upload_resp.exc # ""
        THEN [ret |-> "raise", exc |-> upload_resp.exc, calls |-> <<upload>>]
        ELSE IF upload_resp.json = "bad"
        THEN [ret |-> "raise", exc |-> "json", calls |-> <<upload>>]
        ELSE IF resp.exc # ""
        THEN [ret |-> "raise", exc |-> resp.exc, calls |-> <<upload, message>>]
        ELSE IF resp.status_code # HTTP_OK
        THEN [ret |-> "False", exc |-> "", calls |-> <<upload, message>>]
        ELSE [ret |-> "True", exc |-> "", calls |-> <<upload, message>>]

send_whatsapp_msg_invoice(item, phone, upload_resp, resp) ==
    LET upload  == [item |-> item, endpoint |-> "media", to |-> <<>>,
                    resp |-> upload_resp]
        message == [item |-> item, endpoint |-> "messages",
                    to |-> CountryPrefix \o phone, resp |-> resp]
    IN  IF upload_resp.exc # ""
        THEN [ret |-> "raise", exc |-> upload_resp.exc, calls |-> <<upload>>]
        ELSE IF upload_resp.status_code # HTTP_OK
        THEN [ret |-> "False", exc |-> "", calls |-> <<upload>>]
        ELSE IF upload_resp.json = "bad"
        THEN [ret |-> "raise", exc |-> "json", calls |-> <<upload>>]
        ELSE IF upload_resp.json # "id"
        THEN [ret |-> "False", exc |-> "", calls |-> <<upload>>]
        ELSE IF resp.exc # ""
        THEN [ret |-> "raise", exc |-> resp.exc, calls |-> <<upload, message>>]
        ELSE IF resp.status_code # HTTP_OK
        THEN [ret |-> "False", exc |-> "", calls |-> <<upload, message>>]
        ELSE [ret |-> "True", exc |-> "", calls |-> <<upload, message>>]

-----------------------------------------------------------------------------
(* Inputs of the invoice page *)

s_A == <<"A">>

s_B == <<"B">>

s_7 == <<"7">>

s_8 == <<"8">>

NotUploaded == [uploaded |-> FALSE, readable |-> FALSE, headers |-> <<>>, rows |-> <<>>]

Unreadable == [uploaded |-> TRUE, readable |-> FALSE, headers |-> <<>>, rows |-> <<>>]

\* "Dealer Name", " Invoice Number", "phone number", "AMOUNT "
HeadersInvoice ==
    << <<"D","e","a","l","e","r"," ","N","a","m","e">>,
       <<" ","I","n","v","o","i","c","e"," ","N","u","m","b","e","r">>,
       col_phone,
       <<"A","M","O","U","N","T"," ">> >>

\* the amount column is absent
HeadersInvoiceShort == SubSeq(HeadersInvoice, 1, 3)

\* rows as (dealer name, invoice number, phone number, amount)
RowsInvoice ==
    { << <<"D">>, s_A, s_7, <<"5">> >>,
      << <<"E">>, <<" ","A"," ">>, s_8, <<"6">> >>,
      << <<"D">>, s_B, <<"7"," ">>, <<"5">> >>,
      << <<"D">>, <<" ">>, s_7, <<"5">> >> }

RowsInvoiceShort == { << <<"D">>, s_A, s_7 >> }

ExcelInputsInvoice ==
    {NotUploaded, Unreadable}
    \cup {[uploaded |-> TRUE, readable |-> TRUE, headers |-> HeadersInvoice, rows |-> rs] :
             rs \in SeqsUpTo(RowsInvoice, MaxRows)}
    \cup {[uploaded |-> TRUE, readable |-> TRUE, headers |-> HeadersInvoiceShort, rows |-> rs] :
             rs \in SeqsUpTo(RowsInvoiceShort, 1)}

\* " A_1", "B_x", "_x"
FileNames == { <<" ","A","_","1">>, <<"B","_","x">>, <<"_","x">> }

FileInputs == {[k \in 1..Len(ns) |-> [name |-> ns[k]]] : ns \in SeqsUpTo(FileNames, MaxFiles)}

-----------------------------------------------------------------------------
(* invoice_message.py: main and process_and_send *)

\* if not inv
is_skipped_none_only(inv, m) == inv = None \/ inv = <<>>

\* if not inv or inv not in mapping
is_skipped(inv, m) == inv = None \/ inv = <<>> \/ inv \notin DOMAIN m

\* results.insert(0, ...)
record_result_front(res, r) == <<r>> \o res

\* results.append(...)
record_result(res, r) == Append(res, r)

\* main, lines 218-228: the button was pressed; the uploads are checked and
\* the spreadsheet is loaded
invoice_main_load ==
    /\ variant = "invoice"
    /\ pc = "idle"
    /\ IF ~excel_file.uploaded
       THEN pc' = "aborted" /\ abort_reason' = "no_excel" /\ df' = df
       ELSE IF Len(invoice_files) = 0
       THEN pc' = "aborted" /\ abort_reason' = "no_files" /\ df' = df
       ELSE LET loaded == load_excel(excel_file)
            IN  IF loaded.ok
                THEN pc' = "loaded" /\ abort_reason' = abort_reason /\ df' = loaded.df
                ELSE pc' = "aborted" /\ abort_reason' = "parse" /\ df' = df
    /\ UNCHANGED <<variant, excel_file, invoice_files, mapping, missing,
                   phone_numbers, dealer_names, dealer_codes, idx, results,
                   calls, reads, dfile, dres>>

\* main, lines 230-233
invoice_main_validate ==
    /\ variant = "invoice"
    /\ pc = "loaded"
    /\ LET filenames == [k \in 1..Len(invoice_files) |-> invoice_files[k].name]
           v         == validate_data_invoice(df, filenames)
       IN  /\ df' = v.df
           /\ missing' = v.missing
           /\ mapping' = v.mapping
           /\ IF v.ok
              THEN pc' = "sending" /\ abort_reason' = abort_reason
              ELSE pc' = "aborted" /\ abort_reason' = v.reason
    /\ UNCHANGED <<variant, excel_file, invoice_files, phone_numbers,
                   dealer_names, dealer_codes, idx, results, calls, reads,
                   dfile, dres>>

\* one iteration of the loop of process_and_send, lines 181-201
invoice_process_item ==
    /\ variant = "invoice"
    /\ pc = "sending"
    /\ idx <= Len(invoice_files)
    /\ LET fname == invoice_files[idx].name
           inv   == extract_invoice_number(fname)
       IN  IF is_skipped(inv, mapping)
           THEN /\ results' = record_result(results,
                       [file |-> fname, invoice |-> inv, status |-> "skipped"])
                /\ idx' = idx + 1
                /\ UNCHANGED <<pc, calls, reads>>
           ELSE IF inv \notin DOMAIN mapping
           THEN \* info = mapping[inv] raises KeyError outside the try block
                /\ pc' = "raised"
                /\ UNCHANGED <<results, idx, calls, reads>>
           ELSE \E read_exc \in ReadOutcomes, up \in UploadResponses, rs \in SendResponses :
                  LET info == mapping[inv]
                      out  == IF read_exc # ""
                              THEN [ret |-> "raise", exc |-> read_exc, calls |-> <<>>]
                              ELSE send_whatsapp_msg_invoice(idx, info.phone, up, rs)
                  IN  /\ reads' = Append(reads, [item |-> idx, exc |-> read_exc])
                      /\ calls' = calls \o out.calls
                      /\ IF out.ret = "raise" /\ ~catches(out.exc)
                         THEN pc' = "raised" /\ UNCHANGED <<results, idx>>
                         ELSE /\ results' = record_result(results,
                                     [file |-> fname, invoice |-> inv,
                                      phone |-> info.phone, dealer |-> info.dealer,
                                      status |-> status_of(out)])
                              /\ idx' = idx + 1
                              /\ pc' = pc
    /\ UNCHANGED <<variant, excel_file, invoice_files, abort_reason, df, mapping,
                   missing, phone_numbers, dealer_names, dealer_codes, dfile, dres>>

\* process_and_send returns its list; main shows it, lines 202 and 238-239
invoice_process_return ==
    /\ variant = "invoice"
    /\ pc = "sending"
    /\ idx > Len(invoice_files)
    /\ pc' = "done"
    /\ UNCHANGED <<variant, excel_file, invoice_files, abort_reason, df, mapping,
                   missing, phone_numbers, dealer_names, dealer_codes, idx,
                   results, calls, reads, dfile, dres>>

-----------------------------------------------------------------------------
(* welcome_new_user.py *)

\* Series.tolist(): every value, repeated ones included
unique_keep_all(s, acc) == acc \o s

\* Series.unique().tolist(): the distinct values, in order of first appearance
RECURSIVE unique(_, _)
unique(s, acc) ==
    IF s = <<>> THEN acc
    ELSE IF Head(s) \in Range(acc) THEN unique(Tail(s), acc)
    ELSE unique(Tail(s), Append(acc, Head(s)))

validate_data_new(frame) ==
    IF ~(REQUIRED_COLUMNS_new \subseteq Range(frame.columns))
    THEN [ok |-> FALSE, reason |-> "columns", df |-> frame, phone_numbers |-> <<>>]
    ELSE LET trimmed == TrimColumns(frame, {col_phone})
         IN  IF HasEmpty(trimmed, {col_phone})
             THEN [ok |-> FALSE, reason |-> "empty", df |-> trimmed,
                   phone_numbers |-> <<>>]
             ELSE [ok |-> TRUE, reason |-> "", df |-> trimmed,
                   phone_numbers |-> unique(Column(trimmed, col_phone), <<>>)]

\* send_whatsapp_msg that accepts every 2xx status
send_whatsapp_msg_new_2xx(item, phone, resp) ==
    LET message == [item |-> item, endpoint |-> "messages",
                    to |-> CountryPrefix \o phone, resp |-> resp]
    IN  IF resp.exc # ""
        THEN [ret |-> "raise", exc |-> resp.exc, calls |-> <<message>>]
        ELSE IF resp.status_code < 200 \/ resp.status_code > 299
        THEN [ret |-> "False", exc |-> "", calls |-> <<message>>]
        ELSE [ret |-> "True", exc |-> "", calls |-> <<message>>]

send_whatsapp_msg_new(item, phone, resp) ==
    LET message == [item |-> item, endpoint |-> "messages",
                    to |-> CountryPrefix \o phone, resp |-> resp]
    IN  IF resp.exc # ""
        THEN [ret |-> "raise", exc |-> resp.exc, calls |-> <<message>>]
        ELSE IF resp.status_code # HTTP_OK
        THEN [ret |-> "False", exc |-> "", calls |-> <<message>>]
        ELSE [ret |-> "True", exc |-> "", calls |-> <<message>>]

\* "Phone Number "
HeadersNew == << <<"P","h","o","n","e"," ","N","u","m","b","e","r"," ">> >>

\* "Phone": not the required column
HeadersNewShort == << <<"P","h","o","n","e">> >>

RowsNew == { <<s_7>>, << <<" ","7">> >>, <<s_8>>, << <<" ">> >>, <<NaN>> }

ExcelInputsNew ==
    {NotUploaded, Unreadable}
    \cup {[uploaded |-> TRUE, readable |-> TRUE, headers |-> HeadersNew, rows |-> rs] :
             rs \in SeqsUpTo(RowsNew, MaxRows)}
    \cup {[uploaded |-> TRUE, readable |-> TRUE, headers |-> HeadersNewShort, rows |-> rs] :
             rs \in SeqsUpTo({<<s_7>>}, 1)}

\* main, lines 111-118
new_main_load ==
    /\ variant = "new"
    /\ pc = "idle"
    /\ IF ~excel_file.uploaded
       THEN pc' = "aborted" /\ abort_reason' = "no_excel" /\ df' = df
       ELSE LET loaded == load_excel(excel_file)
            IN  IF loaded.ok
                THEN pc' = "loaded" /\ abort_reason' = abort_reason /\ df' = loaded.df
                ELSE pc' = "aborted" /\ abort_reason' = "parse" /\ df' = df
    /\ UNCHANGED <<variant, excel_file, invoice_files, mapping, missing,
                   phone_numbers, dealer_names, dealer_codes, idx, results,
                   calls, reads, dfile, dres>>

\* main, lines 120-124
new_main_validate ==
    /\ variant = "new"
    /\ pc = "loaded"
    /\ LET v == validate_data_new(df)
       IN  /\ df' = v.df
           /\ phone_numbers' = v.phone_numbers
           /\ IF v.ok
              THEN pc' = "sending" /\ abort_reason' = abort_reason
              ELSE pc' = "aborted" /\ abort_reason' = v.reason
    /\ UNCHANGED <<variant, excel_file, invoice_files, mapping, missing,
                   dealer_names, dealer_codes, idx, results, calls, reads,
                   dfile, dres>>

\* one iteration of the loop of process_and_send, lines 87-94
new_process_item ==
    /\ variant = "new"
    /\ pc = "sending"
    /\ idx <= Len(phone_numbers)
    /\ \E rs \in SendResponses :
         LET phone == phone_numbers[idx]
             out   == send_whatsapp_msg_new(idx, phone, rs)
         IN  /\ calls' = calls \o out.calls
             /\ IF out.ret = "raise" /\ ~catches(out.exc)
                THEN pc' = "raised" /\ UNCHANGED <<results, idx>>
                ELSE /\ results' = record_result(results,
                            [phone |-> phone, status |-> status_of(out)])
                     /\ idx' = idx + 1
                     /\ pc' = pc
    /\ UNCHANGED <<variant, excel_file, invoice_files, abort_reason, df, mapping,
                   missing, phone_numbers, dealer_names, dealer_codes, reads,
                   dfile, dres>>

\* process_and_send returns its list; main shows it, lines 96 and 129-130
new_process_return ==
    /\ variant = "new"
    /\ pc = "sending"
    /\ idx > Len(phone_numbers)
    /\ pc' = "done"
    /\ UNCHANGED <<variant, excel_file, invoice_files, abort_reason, df, mapping,
                   missing, phone_numbers, dealer_names, dealer_codes, idx,
                   results, calls, reads, dfile, dres>>

-----------------------------------------------------------------------------
(* msg_existing_user.py *)

validate_data_existing(frame) ==
    IF ~(REQUIRED_COLUMNS_existing \subseteq Range(frame.columns))
    THEN [ok |-> FALSE, reason |-> "columns", df |-> frame,
          phone_numbers |-> <<>>, dealer_names |-> <<>>, dealer_codes |-> <<>>]
    ELSE LET trimmed == TrimColumns(frame, {col_phone, col_dealer, col_code})
         IN  IF HasEmpty(trimmed, {col_phone, col_dealer, col_code})
             THEN [ok |-> FALSE, reason |-> "empty", df |-> trimmed,
                   phone_numbers |-> <<>>, dealer_names |-> <<>>,
                   dealer_codes |-> <<>>]
             ELSE [ok |-> TRUE, reason |-> "", df |-> trimmed,
                   phone_numbers |-> Column(trimmed, col_phone),
                   dealer_names  |-> Column(trimmed, col_dealer),
                   dealer_codes  |-> Column(trimmed, col_code)]

send_whatsapp_msg_existing(item, phone, dealer_name, dealer_code, resp) ==
    LET message == [item |-> item, endpoint |-> "messages",
                    to |-> CountryPrefix \o phone, resp |-> resp]
    IN  IF resp.exc # ""
        THEN [ret |-> "raise", exc |-> resp.exc, calls |-> <<message>>]
        ELSE IF resp.status_code # HTTP_OK
        THEN [ret |-> "False", exc |-> "", calls |-> <<message>>]
        ELSE [ret |-> "True", exc |-> "", calls |-> <<message>>]

\* "Phone Number ", " Dealer Code", "Dealer Name"
HeadersExisting ==
    << <<"P","h","o","n","e"," ","N","u","m","b","e","r"," ">>,
       <<" ","D","e","a","l","e","r"," ","C","o","d","e">>,
       <<"D","e","a","l","e","r"," ","N","a","m","e">> >>

\* the dealer name column is absent
HeadersExistingShort == SubSeq(HeadersExisting, 1, 2)

\* rows as (phone number, dealer code, dealer name)
RowsExisting ==
    { << s_7, <<"c">>, <<"D">> >>,
      << <<" ","7">>, <<"d">>, <<"E">> >>,
      << s_8, <<"c">>, <<"D">> >>,
      << s_7, <<"c">>, <<" ">> >>,
      << NaN, <<"c">>, <<"D">> >> }

ExcelInputsExisting ==
    {NotUploaded, Unreadable}
    \cup {[uploaded |-> TRUE, readable |-> TRUE, headers |-> HeadersExisting, rows |-> rs] :
             rs \in SeqsUpTo(RowsExisting, MaxRows)}
    \cup {[uploaded |-> TRUE, readable |-> TRUE, headers |-> HeadersExistingShort, rows |-> rs] :
             rs \in SeqsUpTo({<< s_7, <<"c">> >>}, 1)}

\* main, lines 128-135
existing_main_load ==
    /\ variant = "existing"
    /\ pc = "idle"
    /\ IF ~excel_file.uploaded
       THEN pc' = "aborted" /\ abort_reason' = "no_excel" /\ df' = df
       ELSE LET loaded == load_excel(excel_file)
            IN  IF loaded.ok
                THEN pc' = "loaded" /\ abort_reason' = abort_reason /\ df' = loaded.df
                ELSE pc' = "aborted" /\ abort_reason' = "parse" /\ df' = df
    /\ UNCHANGED <<variant, excel_file, invoice_files, mapping, missing,
                   phone_numbers, dealer_names, dealer_codes, idx, results,
                   calls, reads, dfile, dres>>

\* main, lines 137-143
existing_main_validate ==
    /\ variant = "existing"
    /\ pc = "loaded"
    /\ LET v == validate_data_existing(df)
       IN  /\ df' = v.df
           /\ phone_numbers' = v.phone_numbers
           /\ dealer_names' = v.dealer_names
           /\ dealer_codes' = v.dealer_codes
           /\ IF v.ok
              THEN pc' = "sending" /\ abort_reason' = abort_reason
              ELSE pc' = "aborted" /\ abort_reason' = v.reason
    /\ UNCHANGED <<variant, excel_file, invoice_files, mapping, missing,
                   idx, results, calls, reads, dfile, dres>>

Min3(a, b, c) ==
    LET ab == IF a < b THEN a ELSE b IN IF ab < c THEN ab ELSE c

\* one iteration of the loop over zip(...) of process_and_send, lines 104-111
existing_process_item ==
    /\ variant = "existing"
    /\ pc = "sending"
    /\ idx <= Min3(Len(phone_numbers), Len(dealer_names), Len(dealer_codes))
    /\ \E rs \in SendResponses :
         LET phone == phone_numbers[idx]
             out   == send_whatsapp_msg_existing(idx, phone, dealer_names[idx],
                                                 dealer_codes[idx], rs)
         IN  /\ calls' = calls \o out.calls
             /\ IF out.ret = "raise" /\ ~catches(out.exc)
                THEN pc' = "raised" /\ UNCHANGED <<results, idx>>
                ELSE /\ results' = record_result(results,
                            [phone |-> phone, status |-> status_of(out)])
                     /\ idx' = idx + 1
                     /\ pc' = pc
    /\ UNCHANGED <<variant, excel_file, invoice_files, abort_reason, df, mapping,
                   missing, phone_numbers, dealer_names, dealer_codes, reads,
                   dfile, dres>>

\* process_and_send returns its list; main shows it, lines 113 and 148-149
existing_process_return ==
    /\ variant = "existing"
    /\ pc = "sending"
    /\ idx > Min3(Len(phone_numbers), Len(dealer_names), Len(dealer_codes))
    /\ pc' = "done"
    /\ UNCHANGED <<variant, excel_file, invoice_files, abort_reason, df, mapping,
                   missing, phone_numbers, dealer_names, dealer_codes, idx,
                   results, calls, reads, dfile, dres>>

-----------------------------------------------------------------------------
(* Specification of the three pages *)

Variants == {"invoice", "new", "existing"}

ExcelInputs(v) ==
    CASE v = "invoice" -> ExcelInputsInvoice
      [] v = "new"     -> ExcelInputsNew
      [] OTHER         -> ExcelInputsExisting

Init ==
    /\ variant \in Variants
    /\ excel_file \in ExcelInputs(variant)
    /\ invoice_files \in (IF variant = "invoice" THEN FileInputs ELSE {<<>>})
    /\ pc = "idle"
    /\ abort_reason = ""
    /\ df = EmptyFrame
    /\ mapping = EmptyDict
    /\ missing = {}
    /\ phone_numbers = <<>>
    /\ dealer_names = <<>>
    /\ dealer_codes = <<>>
    /\ idx = 1
    /\ results = <<>>
    /\ calls = <<>>
    /\ reads = <<>>
    /\ dfile = <<>>
    /\ dres = Unset

Next ==
    \/ invoice_main_load
    \/ invoice_main_validate
    \/ invoice_process_item
    \/ invoice_process_return
    \/ new_main_load
    \/ new_main_validate
    \/ new_process_item
    \/ new_process_return
    \/ existing_main_load
    \/ existing_main_validate
    \/ existing_process_item
    \/ existing_process_return

Spec == Init /\ [][Next]_vars

-----------------------------------------------------------------------------
(* Specification of the key derivation alone: extract_invoice_number is     *)
(* applied to one filename drawn from all short names over DeriveAlphabet   *)
(* and the names the documentation gives.                                   *)

DeriveAlphabet == {"A", "1", "_", " ", "x"}

name_A1_x_pdf == <<"A","1","_","x",".","p","d","f">>

name_noUnderscore_pdf == <<"n","o","U","n","d","e","r","s","c","o","r","e",".","p","d","f">>

DeriveInputs ==
    SeqsUpTo(DeriveAlphabet, MaxNameLen) \cup {name_A1_x_pdf, name_noUnderscore_pdf}

InitDerive ==
    /\ variant = "invoice"
    /\ excel_file = NotUploaded
    /\ invoice_files = <<>>
    /\ pc = "idle"
    /\ abort_reason = ""
    /\ df = EmptyFrame
    /\ mapping = EmptyDict
    /\ missing = {}
    /\ phone_numbers = <<>>
    /\ dealer_names = <<>>
    /\ dealer_codes = <<>>
    /\ idx = 1
    /\ results = <<>>
    /\ calls = <<>>
    /\ reads = <<>>
    /\ dfile \in DeriveInputs
    /\ dres = Unset

derive_apply ==
    /\ dres = Unset
    /\ dres' = extract_invoice_number(dfile)
    /\ UNCHANGED <<variant, excel_file, invoice_files, pc, abort_reason, df,
                   mapping, missing, phone_numbers, dealer_names, dealer_codes,
                   idx, results, calls, reads, dfile>>

NextDerive == derive_apply

SpecDerive == InitDerive /\ [][NextDerive]_vars

-----------------------------------------------------------------------------
(* Properties *)

\* what the pages were given, read independently of the validators
NormHeaders == [k \in 1..Len(excel_file.headers) |-> lower(strip(excel_file.headers[k]))]

\* the position of column col; load_excel keeps the order of the headers
RawCol(col) == CHOOSE k \in 1..Len(df.columns) : df.columns[k] = col

\* the text of the cell of row r in the column at position c
CellText(r, c) == strip(astype_str(excel_file.rows[r][c]))

RosterText(r, col) == CellText(r, RawCol(col))

RequiredOf(v) ==
    CASE v = "invoice" -> {col_invoice, col_phone, col_dealer, col_amount}
      [] v = "new"     -> {col_phone}
      [] OTHER         -> {col_phone, col_dealer, col_code}

NRows == Len(excel_file.rows)

RosterKeys == LET c == RawCol(col_invoice) IN {CellText(r, c) : r \in 1..NRows}

FileKeys == {extract_invoice_number(invoice_files[k].name) : k \in 1..Len(invoice_files)} \ {None}

InputValid ==
    /\ excel_file.uploaded
    /\ excel_file.readable
    /\ RequiredOf(variant) \subseteq Range(NormHeaders)
    /\ \A col \in RequiredOf(variant) :
          LET c == RawCol(col) IN \A r \in 1..NRows : CellText(r, c) # <<>>
    /\ variant = "invoice" =>
          /\ Len(invoice_files) > 0
          /\ LET c == RawCol(col_invoice)
             IN  \A r \in 1..NRows : \E k \in 1..Len(invoice_files) :
                    extract_invoice_number(invoice_files[k].name) = CellText(r, c)

NItems == IF variant = "invoice" THEN Len(invoice_files) ELSE Len(phone_numbers)

ItemCalls(k) == SelectSeq(calls, LAMBDA c : c.item = k)

Unmatched(k) ==
    LET inv == extract_invoice_number(invoice_files[k].name)
    IN  inv = None \/ inv = <<>> \/ inv \notin DOMAIN mapping

\* the last row of the roster whose invoice number, in column c, is key
LastRow(c, key) ==
    CHOOSE r \in 1..NRows :
        /\ CellText(r, c) = key
        /\ \A q \in (r + 1)..NRows : CellText(q, c) # key

\* the first row of the roster whose phone number, in column c, is phone
FirstRow(c, phone) ==
    CHOOSE r \in 1..NRows :
        /\ CellText(r, c) = phone
        /\ \A q \in 1..(r - 1) : CellText(q, c) # phone

\* C1: in every variant, a provider call, a read of a document or an entry
\* into process_and_send happens only in a run whose spreadsheet was read,
\* has every required column and no empty required cell and, on the invoice
\* page, has a file for every roster invoice number; a run that aborted has
\* made no call.
C1_NoCallUnlessValidated ==
    /\ (calls # <<>> \/ reads # <<>> \/ results # <<>>
            \/ pc \in {"sending", "done", "raised"}) => InputValid
    /\ pc = "aborted" => (calls = <<>> /\ reads = <<>> /\ results = <<>>)

C1_Witness ==
    /\ variant = "invoice"
    /\ pc = "aborted"
    /\ abort_reason = "unmatched"
    /\ missing # {}
    /\ calls = <<>>

\* C2: in process_and_send of every variant no exception leaves the loop,
\* each processed item has its own result, all items are processed by the
\* time the function returns, and an item whose read or provider call raised
\* has the status "error: <message>" of that exception.
C2_FailureIsolated ==
    /\ pc # "raised"
    /\ pc \in {"sending", "done"} => (Len(results) = idx - 1 /\ idx <= NItems + 1)
    /\ pc = "done" => Len(results) = NItems
    /\ \A j \in 1..Len(calls) :
          /\ calls[j].resp.exc # "" =>
                /\ calls[j].item <= Len(results)
                /\ results[calls[j].item].status = ErrorStatus(calls[j].resp.exc)
          /\ (calls[j].endpoint = "media" /\ calls[j].resp.exc = ""
                 /\ calls[j].resp.status_code = HTTP_OK /\ calls[j].resp.json = "bad") =>
                results[calls[j].item].status = "error: json"
    /\ \A j \in 1..Len(reads) :
          reads[j].exc # "" =>
             /\ reads[j].item <= Len(results)
             /\ results[reads[j].item].status = ErrorStatus(reads[j].exc)

C2_Witness ==
    /\ pc = "done"
    /\ \E k \in 1..Len(results) :
          /\ k < Len(results)
          /\ results[k].status \in ErrorStatuses
          /\ results[k + 1].status = "sent"

\* C3: when the invoice process_and_send has returned there are exactly as
\* many results as uploaded documents and the k-th result is about the k-th
\* document: it carries that document's filename and derived key.
C3_OneResultPerDocumentInOrder ==
    (variant = "invoice" /\ pc = "done") =>
        /\ Len(results) = Len(invoice_files)
        /\ \A k \in 1..Len(invoice_files) :
              /\ results[k].file = invoice_files[k].name
              /\ results[k].invoice = extract_invoice_number(invoice_files[k].name)

C3_Witness ==
    /\ variant = "invoice"
    /\ pc = "done"
    /\ NRows = 2
    /\ Len(invoice_files) = 2
    /\ Len(results) = 2
    /\ results[1].file # results[2].file
    /\ \A k \in 1..2 : results[k].status # "skipped"

\* C4: on the invoice page a document whose derived key is None, empty or
\* not a key of the mapping causes no provider call and no read of its
\* bytes, its processing does not end in an exception, and once it has been
\* processed its result has the status "skipped".
C4_UnmatchedDocumentSkipped ==
    (variant = "invoice" /\ pc \in {"sending", "done", "raised"}) =>
        \A k \in 1..Len(invoice_files) :
            Unmatched(k) =>
               /\ ItemCalls(k) = <<>>
               /\ \A j \in 1..Len(reads) : reads[j].item # k
               /\ ~(pc = "raised" /\ idx = k)
               /\ k <= Len(results) => results[k].status = "skipped"

C4_Witness ==
    /\ variant = "invoice"
    /\ pc = "done"
    /\ \E k, j \in 1..Len(results) :
          /\ results[k].status = "skipped"
          /\ results[k].invoice # None
          /\ results[j].status = "sent"
          /\ k < j

C6_SentIffStatus200 ==
    \A j \in 1..Len(calls) :
        (calls[j].endpoint = "messages" /\ calls[j].resp.exc = "") =>
           /\ calls[j].item <= Len(results)
           /\ results[calls[j].item].status = "sent" <=> calls[j].resp.status_code = 200
           /\ calls[j].resp.status_code # 200 => results[calls[j].item].status = "failed"

C6_Witness ==
    /\ variant = "new"
    /\ pc = "done"
    /\ \E i, j \in 1..Len(calls) :
          /\ calls[i].resp.exc = "" /\ calls[i].resp.status_code = 201
          /\ results[calls[i].item].status = "failed"
          /\ calls[j].resp.exc = "" /\ calls[j].resp.status_code = 200
          /\ results[calls[j].item].status = "sent"

\* C7: for an invoice roster with every required column and no empty
\* required cell, validate_data rejects exactly if some roster invoice number
\* is the derived key of no uploaded filename, the set it reports is the
\* roster's invoice numbers minus the derived keys, and a mapping it returns
\* has the roster's invoice numbers as its keys.
C7_RejectsIffMissingKeys ==
    (variant = "invoice" /\ pc \notin {"idle", "loaded"}
        /\ abort_reason \notin {"no_excel", "no_files", "parse", "columns", "empty"}) =>
        LET roster == RosterKeys
            diff   == roster \ FileKeys
        IN  /\ pc = "aborted" <=> diff # {}
            /\ pc = "aborted" => (abort_reason = "unmatched" /\ missing = diff)
            /\ pc # "aborted" => DOMAIN mapping = roster

C7_Witness ==
    /\ variant = "invoice"
    /\ pc = "aborted"
    /\ abort_reason = "unmatched"
    /\ NRows = 2
    /\ Cardinality(missing) = 1
    /\ Cardinality(RosterKeys) = 2

C9_LastRowWins ==
    (variant = "invoice" /\ pc \in {"sending", "done"}) =>
        LET cp       == RawCol(col_phone)
            cd       == RawCol(col_dealer)
            ca       == RawCol(col_amount)
            ci       == RawCol(col_invoice)
            last     == [key \in DOMAIN mapping |-> LastRow(ci, key)]
        IN  /\ \A key \in DOMAIN mapping :
                  mapping[key] = [phone  |-> CellText(last[key], cp),
                                  dealer |-> CellText(last[key], cd),
                                  amount |-> CellText(last[key], ca)]
            /\ \A j \in 1..Len(calls) :
                  calls[j].endpoint = "messages" =>
                     calls[j].to = CountryPrefix \o
                        CellText(last[extract_invoice_number(
                            invoice_files[calls[j].item].name)], cp)
            /\ \A k \in 1..Len(results) :
                  results[k].status # "skipped" =>
                     /\ results[k].phone = CellText(last[results[k].invoice], cp)
                     /\ results[k].dealer = CellText(last[results[k].invoice], cd)

C9_Witness ==
    /\ variant = "invoice"
    /\ pc = "done"
    /\ NRows = 2
    /\ RosterText(1, col_invoice) = RosterText(2, col_invoice)
    /\ RosterText(1, col_phone) # RosterText(2, col_phone)
    /\ \E j \in 1..Len(calls) :
          /\ calls[j].endpoint = "messages"
          /\ calls[j].to = CountryPrefix \o RosterText(2, col_phone)

====
